---- MODULE Spec2Model ----
(***************************************************************************)
(* Model of api/index.py: the GensynTracker methods                        *)
(* (get_peer_ids_from_eoa, fetch_rank_data, format_last_seen), the /track  *)
(* view track_node and the serverless wrapper handler.                     *)
(*                                                                         *)
(* Python strings are TLA+ strings (Len, SubSeq and \o act on them).       *)
(* JSON / Python values are tagged records, see the J* constructors.       *)
(***************************************************************************)
EXTENDS Integers, Sequences, FiniteSets, TLC

(***************************************************************************)
(* Bounds of the model.                                                    *)
(***************************************************************************)
MaxPeers == 3
MaxRanks == 2

(***************************************************************************)
(* String helpers (Python str methods).                                    *)
(***************************************************************************)
Ch(s, i) == SubSeq(s, i, i)

Drop(s, n) == SubSeq(s, n + 1, Len(s))

Take(s, n) == SubSeq(s, 1, n)

\* 'c' in s
Contains(s, c) == \E i \in 1..Len(s) : Ch(s, i) = c

\* s.replace(c, new) for a one-character c: every occurrence is replaced.
RECURSIVE Replace(_, _, _)
Replace(s, c, new) ==
    IF s = "" THEN ""
    ELSE (IF Ch(s, 1) = c THEN new ELSE Ch(s, 1)) \o Replace(Drop(s, 1), c, new)

Whitespace == {" ", "\t", "\n", "\r"}

RECURSIVE LStrip(_)
LStrip(s) == IF s # "" /\ Ch(s, 1) \in Whitespace THEN LStrip(Drop(s, 1)) ELSE s

RECURSIVE RStrip(_)
RStrip(s) ==
    IF s # "" /\ Ch(s, Len(s)) \in Whitespace THEN RStrip(Take(s, Len(s) - 1)) ELSE s

\* str.strip()
Strip(s) == RStrip(LStrip(s))

Digits == {"0", "1", "2", "3", "4", "5", "6", "7", "8", "9"}

DigitVal(c) ==
    CASE c = "0" -> 0 [] c = "1" -> 1 [] c = "2" -> 2 [] c = "3" -> 3
      [] c = "4" -> 4 [] c = "5" -> 5 [] c = "6" -> 6 [] c = "7" -> 7
      [] c = "8" -> 8 [] c = "9" -> 9

AllDigits(s) == \A i \in 1..Len(s) : Ch(s, i) \in Digits

RECURSIVE ParseNat(_)
ParseNat(s) ==
    IF s = "" THEN 0
    ELSE 10 * ParseNat(Take(s, Len(s) - 1)) + DigitVal(Ch(s, Len(s)))

\* "%02d" and "%04d" of strftime
Pad2(n) == IF n < 10 THEN "0" \o ToString(n) ELSE ToString(n)

Pad4(n) ==
    IF n < 10 THEN "000" \o ToString(n)
    ELSE IF n < 100 THEN "00" \o ToString(n)
    ELSE IF n < 1000 THEN "0" \o ToString(n)
    ELSE ToString(n)

(***************************************************************************)
(* Calendar arithmetic of datetime (proleptic Gregorian), in seconds since *)
(* 1970-01-01T00:00:00Z.                                                   *)
(***************************************************************************)
IsLeap(y) == (y % 4 = 0) /\ ((y % 100 # 0) \/ (y % 400 = 0))

DaysInMonth(y, m) ==
    IF m = 2 THEN (IF IsLeap(y) THEN 29 ELSE 28)
    ELSE IF m \in {4, 6, 9, 11} THEN 30 ELSE 31

\* days from 1970-01-01 to y-m-d
DaysFromCivil(y, m, d) ==
    LET yy  == IF m <= 2 THEN y - 1 ELSE y
        era == yy \div 400
        yoe == yy - era * 400
        mp  == (m + 9) % 12
        doy == (153 * mp + 2) \div 5 + d - 1
        doe == yoe * 365 + yoe \div 4 - yoe \div 100 + doy
    IN  era * 146097 + doe - 719468

\* the calendar date of day number z, computed in steps: the 400-year era
\* and the day of the era, the year of the era, the day of the year, the
\* month counted from March, the date
CivilDate(y0, m, d) == [y |-> y0 + (IF m <= 2 THEN 1 ELSE 0), mo |-> m, d |-> d]

CivilFromMp(y0, doy, mp) ==
    CivilDate(y0, IF mp < 10 THEN mp + 3 ELSE mp - 9, doy - (153 * mp + 2) \div 5 + 1)

CivilFromDoy(y0, doy) == CivilFromMp(y0, doy, (5 * doy + 2) \div 153)

CivilFromYoe(era, doe, yoe) ==
    CivilFromDoy(yoe + era * 400, doe - (365 * yoe + yoe \div 4 - yoe \div 100))

CivilFromDoe(era, doe) ==
    CivilFromYoe(era, doe, (doe - doe \div 1460 + doe \div 36524 - doe \div 146096) \div 365)

CivilFromDays(z) == CivilFromDoe((z + 719468) \div 146097, (z + 719468) % 146097)

\* wall-clock fields -> seconds since the epoch of that wall clock
WallSeconds(f) == DaysFromCivil(f.y, f.mo, f.d) * 86400 + f.h * 3600 + f.mi * 60 + f.s

\* seconds since the epoch -> wall-clock fields
FieldsOf(c, r) ==
    [y |-> c.y, mo |-> c.mo, d |-> c.d,
     h |-> r \div 3600, mi |-> (r % 3600) \div 60, s |-> r % 60]

WallFields(t) == FieldsOf(CivilFromDays(t \div 86400), t % 86400)

(***************************************************************************)
(* Python / JSON values: tagged records [t, v].                            *)
(*   null -> None, bool, num, str, list (a sequence of values),            *)
(*   object (a function from its keys to values).                          *)
(***************************************************************************)
JNull == [t |-> "null", v |-> 0]

JBool(b) == [t |-> "bool", v |-> b]

JNum(n) == [t |-> "num", v |-> n]

JStr(s) == [t |-> "str", v |-> s]

JList(q) == [t |-> "list", v |-> q]

JObj(f) == [t |-> "object", v |-> f]

EmptyObj == JObj(<<>>)

\* bool(x): the operand of Python's "not x"
Truthy(x) ==
    CASE x.t = "null"   -> FALSE
      [] x.t = "bool"   -> x.v
      [] x.t = "num"    -> x.v # 0
      [] x.t = "str"    -> x.v # ""
      [] x.t = "list"   -> x.v # <<>>
      [] x.t = "object" -> DOMAIN x.v # {}

\* x.get(key, default) is defined on dicts alone (AttributeError otherwise)
HasGet(x) == x.t = "object"

Get(x, key, default) == IF key \in DOMAIN x.v THEN x.v[key] ELSE default

(***************************************************************************)
(* datetime.fromisoformat, on the grammar every supported Python accepts:  *)
(*   YYYY-MM-DD[*HH[:MM[:SS[.fff[fff]]]][(+|-)HH:MM]]                      *)
(* Result: ok = FALSE for a ValueError, else the wall-clock fields f, the  *)
(* microseconds us, and the offset off (seconds) of an aware value.        *)
(***************************************************************************)
ParseFail == [ok |-> FALSE]

\* two digits at position i of s, or -1
Two(s, i) ==
    IF Len(s) >= i + 1 /\ AllDigits(SubSeq(s, i, i + 1))
    THEN ParseNat(SubSeq(s, i, i + 1)) ELSE -1

\* position of the first '+' or '-' of s, or 0
RECURSIVE SignPos(_, _)
SignPos(s, i) ==
    IF i > Len(s) THEN 0
    ELSE IF Ch(s, i) \in {"+", "-"} THEN i
    ELSE SignPos(s, i + 1)

\* HH[:MM[:SS[.fff[fff]]]]
ParseTime(s) ==
    LET n  == Len(s)
        hh == Two(s, 1)
        mm == IF n >= 5 THEN Two(s, 4) ELSE 0
        ss == IF n >= 8 THEN Two(s, 7) ELSE 0
        fr == IF n >= 12 THEN SubSeq(s, 10, n) ELSE ""
        shape == /\ n \in {2, 5, 8, 12, 15}
                 /\ (n >= 5 => Ch(s, 3) = ":")
                 /\ (n >= 8 => Ch(s, 6) = ":")
                 /\ (n >= 12 => Ch(s, 9) = "." /\ AllDigits(fr))
    IN  IF shape /\ hh \in 0..23 /\ mm \in 0..59 /\ ss \in 0..59
        THEN [ok |-> TRUE, h |-> hh, mi |-> mm, s |-> ss,
              us |-> IF n = 12 THEN ParseNat(fr) * 1000
                     ELSE IF n = 15 THEN ParseNat(fr) ELSE 0]
        ELSE ParseFail

\* HH:MM after the sign
ParseOffset(s) ==
    LET hh == Two(s, 1)
        mm == Two(s, 4)
    IN  IF Len(s) = 5 /\ Ch(s, 3) = ":" /\ hh \in 0..23 /\ mm \in 0..59
        THEN [ok |-> TRUE, secs |-> hh * 3600 + mm * 60]
        ELSE ParseFail

ParseDate(s) ==
    LET y == IF AllDigits(SubSeq(s, 1, 4)) THEN ParseNat(SubSeq(s, 1, 4)) ELSE -1
        m == Two(s, 6)
        d == Two(s, 9)
    IN  IF /\ Len(s) = 10 /\ Ch(s, 5) = "-" /\ Ch(s, 8) = "-"
           /\ y >= 1 /\ m \in 1..12 /\ d >= 1 /\ d <= DaysInMonth(y, m)
        THEN [ok |-> TRUE, y |-> y, mo |-> m, d |-> d]
        ELSE ParseFail

IsoValue(date, time, offs, aware, sign) ==
    IF date.ok /\ time.ok /\ offs.ok
    THEN [ok |-> TRUE,
          f |-> [y |-> date.y, mo |-> date.mo, d |-> date.d,
                 h |-> time.h, mi |-> time.mi, s |-> time.s],
          us |-> time.us,
          aware |-> aware,
          off |-> sign * offs.secs]
    ELSE ParseFail

\* rest is what follows the date and its separator, sp the position of the
\* sign of the offset in rest (0: no offset)
IsoRest(date, rest, sp) ==
    IsoValue(date,
             ParseTime(IF sp = 0 THEN rest ELSE Take(rest, sp - 1)),
             IF sp = 0 THEN [ok |-> TRUE, secs |-> 0] ELSE ParseOffset(Drop(rest, sp)),
             sp # 0,
             IF sp # 0 /\ Ch(rest, sp) = "-" THEN -1 ELSE 1)

Midnight == [ok |-> TRUE, h |-> 0, mi |-> 0, s |-> 0, us |-> 0]

fromisoformat(s) ==
    IF Len(s) < 10 \/ Len(s) = 11 THEN ParseFail
    ELSE IF Len(s) = 10
    THEN IsoValue(ParseDate(s), Midnight, [ok |-> TRUE, secs |-> 0], FALSE, 1)
    ELSE IsoRest(ParseDate(SubSeq(s, 1, 10)), Drop(s, 11), SignPos(Drop(s, 11), 1))

(***************************************************************************)
(* GensynTracker.format_last_seen.  now = [sec, us] is the instant         *)
(* datetime.now() reads; host is the UTC offset (seconds) of the host's    *)
(* local timezone, the zone astimezone() assumes for a naive value.        *)
(***************************************************************************)
IST_OFFSET == 19800

\* the instant a parsed value denotes, as astimezone() computes it
Instant(p, host) == WallSeconds(p.f) - (IF p.aware THEN p.off ELSE host)

\* strftime("%Y-%m-%d %H:%M:%S")
Strftime(f) ==
    Pad4(f.y) \o "-" \o Pad2(f.mo) \o "-" \o Pad2(f.d) \o " "
      \o Pad2(f.h) \o ":" \o Pad2(f.mi) \o ":" \o Pad2(f.s)

\* int(diff.total_seconds() // 60) for diff = now - then
ElapsedMins(now, then_sec, then_us) ==
    LET whole == (now.sec - then_sec) + (IF now.us < then_us THEN -1 ELSE 0)
    IN  whole \div 60

AgoText(mins) ==
    IF mins < 60 THEN ToString(mins) \o "m ago"
    ELSE LET hrs == mins \div 60
         IN  IF hrs < 24 THEN ToString(hrs) \o "h ago"
             ELSE ToString(hrs \div 24) \o "d ago"

Never == [formatted |-> "Never", ago |-> "Never", is_online |-> FALSE]

\* Mutant of format_instant: a node seen exactly 10 minutes ago is online.
format_instant_online_le(then_sec, us, now) ==
    [formatted |-> Strftime(WallFields(then_sec + IST_OFFSET)) \o " IST",
     ago |-> AgoText(ElapsedMins(now, then_sec, us)),
     is_online |-> ElapsedMins(now, then_sec, us) <= 10]

\* Mutant of format_instant: the evaluation instant is rendered, not ist_time.
format_instant_renders_now(then_sec, us, now) ==
    [formatted |-> Strftime(WallFields(now.sec + IST_OFFSET)) \o " IST",
     ago |-> AgoText(ElapsedMins(now, then_sec, us)),
     is_online |-> ElapsedMins(now, then_sec, us) < 10]

\* lines 89-108, for the instant then_sec (+ us microseconds) of utc_time
format_instant(then_sec, us, now) ==
    [formatted |-> Strftime(WallFields(then_sec + IST_OFFSET)) \o " IST",
     ago |-> AgoText(ElapsedMins(now, then_sec, us)),
     is_online |-> ElapsedMins(now, then_sec, us) < 10]

\* lines 88-111, for str the string after line 86 and utc_time its parse
format_parsed(str, utc_time, now, host) ==
    IF ~utc_time.ok
    THEN [formatted |-> str, ago |-> "Unknown", is_online |-> FALSE]
    ELSE format_instant(Instant(utc_time, host), utc_time.us, now)

\* lines 85-86
replace_z(last_seen_str) ==
    IF Contains(last_seen_str, "Z")
    THEN Replace(last_seen_str, "Z", "+00:00") ELSE last_seen_str

format_string(str, now, host) == format_parsed(str, fromisoformat(str), now, host)

format_last_seen(last_seen, now, host) ==
    IF ~Truthy(last_seen) THEN Never
    ELSE IF last_seen.t # "str"
    THEN [formatted |-> last_seen, ago |-> "Unknown", is_online |-> FALSE]
    ELSE format_string(replace_z(last_seen.v), now, host)

(***************************************************************************)
(* Web3.is_address / Web3.to_checksum_address (eth_utils).                 *)
(* keccak-256 is not computed here: the EIP-55 form of the addresses the   *)
(* model uses is tabulated in ChecksumTable.                               *)
(***************************************************************************)
CONTRACT_ADDRESS == "0xFaD7C5e93f28257429569B854151A1B8DCD404c2"

ChecksumTable == {CONTRACT_ADDRESS, "0x52908400098527886E0F7030069857D2E4169EE7"}

LowerCh(c) ==
    CASE c = "A" -> "a" [] c = "B" -> "b" [] c = "C" -> "c" [] c = "D" -> "d"
      [] c = "E" -> "e" [] c = "F" -> "f" [] c = "X" -> "x" [] OTHER -> c

RECURSIVE Lower(_)
Lower(s) == IF s = "" THEN "" ELSE LowerCh(Ch(s, 1)) \o Lower(Drop(s, 1))

HexLower == Digits \cup {"a", "b", "c", "d", "e", "f"}

HexUpper == Digits \cup {"A", "B", "C", "D", "E", "F"}

remove_0x_prefix(s) == IF Len(s) >= 2 /\ Lower(Take(s, 2)) = "0x" THEN Drop(s, 2) ELSE s

\* (0x)?[0-9a-f]{40}, ignoring case
is_hex_address(s) ==
    LET u == remove_0x_prefix(s)
    IN  Len(u) = 40 /\ \A i \in 1..40 : LowerCh(Ch(u, i)) \in HexLower

\* neither all lower case, nor all upper case, nor all digits
is_checksum_formatted(s) ==
    LET u == remove_0x_prefix(s)
    IN  /\ \E i \in 1..Len(u) : Ch(u, i) \notin HexLower
        /\ \E i \in 1..Len(u) : Ch(u, i) \notin HexUpper

to_checksum_address(s) ==
    CHOOSE c \in ChecksumTable : Lower(c) = "0x" \o Lower(remove_0x_prefix(s))

\* Mutant of is_address: the EIP-55 checksum of a mixed-case address is not
\* verified.
is_address_any_case(s) == is_hex_address(s)

is_address(s) ==
    /\ is_hex_address(s)
    /\ is_checksum_formatted(s) => s = to_checksum_address(s)

(***************************************************************************)
(* GensynTracker.__init__: outcome is what connecting to the RPC did.      *)
(***************************************************************************)
InitOutcomes == {"connected", "not_connected", "error"}

TrackerInit(outcome) ==
    [w3 |-> outcome # "error", contract |-> outcome = "connected"]

(***************************************************************************)
(* GensynTracker.get_peer_ids_from_eoa.  outcome is what the contract call *)
(* does if it is made: it raises, or returns a string[][] result.          *)
(* Returns the peer IDs and, in called, the address list the contract was  *)
(* called with (<<>> when no call was made); raised tells whether an       *)
(* exception left the method.                                              *)
(***************************************************************************)
ChainRaise(kind) == [raised |-> TRUE, kind |-> kind, result |-> <<>>]

ChainResult(r) == [raised |-> FALSE, kind |-> "result", result |-> r]

get_peer_ids_from_eoa(self, eoa_address, outcome) ==
    IF ~self.contract THEN [raised |-> FALSE, peer_ids |-> <<>>, called |-> <<>>]
    ELSE IF ~is_address(eoa_address)
    THEN [raised |-> FALSE, peer_ids |-> <<>>, called |-> <<>>]
    ELSE LET checksum_address == to_checksum_address(eoa_address)
         IN  [raised |-> FALSE,
              peer_ids |-> IF outcome.raised THEN <<>>
                           ELSE IF outcome.result # <<>> THEN outcome.result[1]
                           ELSE <<>>,
              called |-> <<checksum_address>>]

(***************************************************************************)
(* GensynTracker.fetch_rank_data.  outcome is what requests.post does if   *)
(* it is called: kind "timeout" / "connection" (it raises), or "response"  *)
(* with a status code and a body: parsed = FALSE when response.json()      *)
(* raises, else json is the parsed value.  data = JNull stands for None,   *)
(* posted counts the HTTP POSTs sent, raised tells whether an exception    *)
(* left the method.                                                        *)
(***************************************************************************)
PostRaises(kind) == [kind |-> kind, status_code |-> 0, parsed |-> FALSE, json |-> JNull]

PostResponse(code, parsed, json) ==
    [kind |-> "response", status_code |-> code, parsed |-> parsed, json |-> json]

\* Mutant of fetch_rank_data: no short-circuit on an empty peer-ID list.
fetch_rank_data_always_posts(peer_ids, outcome) ==
    [raised |-> FALSE,
     data |-> IF outcome.kind # "response" THEN JNull
              ELSE IF outcome.status_code = 200
                   THEN (IF outcome.parsed THEN outcome.json ELSE JNull)
                   ELSE JNull,
     posted |-> 1]

\* Mutant of fetch_rank_data: the body is returned whatever the status code.
fetch_rank_data_any_status(peer_ids, outcome) ==
    IF peer_ids = <<>> THEN [raised |-> FALSE, data |-> JNull, posted |-> 0]
    ELSE [raised |-> FALSE,
          data |-> IF outcome.kind # "response" THEN JNull
                   ELSE IF outcome.parsed THEN outcome.json ELSE JNull,
          posted |-> 1]

fetch_rank_data(peer_ids, outcome) ==
    IF peer_ids = <<>> THEN [raised |-> FALSE, data |-> JNull, posted |-> 0]
    ELSE [raised |-> FALSE,
          data |-> IF outcome.kind # "response" THEN JNull
                   ELSE IF outcome.status_code = 200
                        THEN (IF outcome.parsed THEN outcome.json ELSE JNull)
                        ELSE JNull,
          posted |-> 1]

(***************************************************************************)
(* track_node, lines 151-178: the success payload, or the exception the    *)
(* block raises.                                                           *)
(***************************************************************************)
Raise(text) == [raised |-> TRUE, exc |-> text]

\* Mutant of node_info_with: node_id is the 0-based index of enumerate().
node_info_with_zero_based(i, rank_info, last_seen) ==
    [node_id |-> i,
     peer_id |-> Get(rank_info, "peerId", JStr("")),
     rank |-> Get(rank_info, "rank", JStr("N/A")),
     total_wins |-> Get(rank_info, "totalWins", JNum(0)),
     total_rewards |-> Get(rank_info, "totalRewards", JNum(0)),
     last_seen |-> last_seen,
     status |-> IF last_seen.is_online THEN "online" ELSE "offline"]

node_info_with(i, rank_info, last_seen) ==
    [node_id |-> i + 1,
     peer_id |-> Get(rank_info, "peerId", JStr("")),
     rank |-> Get(rank_info, "rank", JStr("N/A")),
     total_wins |-> Get(rank_info, "totalWins", JNum(0)),
     total_rewards |-> Get(rank_info, "totalRewards", JNum(0)),
     last_seen |-> last_seen,
     status |-> IF last_seen.is_online THEN "online" ELSE "offline"]

\* lines 156-167, the body of the loop
node_info(i, rank_info, now, host) ==
    node_info_with(i, rank_info,
                   format_last_seen(Get(rank_info, "lastSeen", JStr("")), now, host))

\* enumerate(ranks): 0-based indices paired with the elements
build_payload(eoa_address, peer_ids, node_data, now, host) ==
    IF ~HasGet(node_data) THEN Raise("AttributeError: no attribute 'get'")
    ELSE
      LET ranks == Get(node_data, "ranks", JList(<<>>))
          stats == Get(node_data, "stats", EmptyObj)
      IN  IF ranks.t \in {"null", "bool", "num"}
          THEN Raise("TypeError: object is not iterable")
          ELSE IF ranks.t \in {"str", "object"} /\ Truthy(ranks)
          THEN Raise("AttributeError: 'str' object has no attribute 'get'")
          ELSE IF ranks.t = "list" /\ \E i \in 1..Len(ranks.v) : ~HasGet(ranks.v[i])
          THEN Raise("AttributeError: no attribute 'get'")
          ELSE IF ~HasGet(stats)
          THEN Raise("AttributeError: no attribute 'get'")
          ELSE
            LET items == IF ranks.t = "list" THEN ranks.v ELSE <<>>
            IN  [raised |-> FALSE,
                 body |->
                   [eoa |-> eoa_address,
                    nodes |-> [i \in 1..Len(items) |-> node_info(i - 1, items[i], now, host)],
                    stats |-> [total_nodes |-> Get(stats, "totalNodes", JNum(0)),
                               ranked_nodes |-> Get(stats, "rankedNodes", JNum(0)),
                               your_nodes |-> Len(peer_ids)],
                    timestamp |-> Strftime(WallFields(now.sec + host))]]

(***************************************************************************)
(* track_node, split at its two blocking calls.                            *)
(***************************************************************************)
Response(status, body) == [status |-> status, body |-> body]

GENERIC_ERROR == "Internal server error"

\* lines 180-182: the except clause of track_node
track_node_except == Response(500, [error |-> GENERIC_ERROR])

\* Mutant of track_node_start: the address format is not validated.
track_node_start_unchecked(raw) ==
    IF Strip(raw) = ""
    THEN [stop |-> TRUE, eoa_address |-> Strip(raw),
          response |-> Response(400, [error |-> "EOA address is required"])]
    ELSE [stop |-> FALSE, eoa_address |-> Strip(raw)]

\* lines 123-129: stop = TRUE when the view returns here
track_node_start(raw) ==
    LET eoa_address == Strip(raw)
    IN  IF eoa_address = ""
        THEN [stop |-> TRUE, eoa_address |-> eoa_address,
              response |-> Response(400, [error |-> "EOA address is required"])]
        ELSE IF ~is_address(eoa_address)
        THEN [stop |-> TRUE, eoa_address |-> eoa_address,
              response |-> Response(400, [error |-> "Invalid EOA address format"])]
        ELSE [stop |-> FALSE, eoa_address |-> eoa_address]

\* lines 132-139, after get_peer_ids_from_eoa returned r
track_node_peers(eoa_address, r) ==
    IF r.raised THEN [stop |-> TRUE, failure |-> "chain", response |-> track_node_except]
    ELSE IF r.peer_ids = <<>>
    THEN [stop |-> TRUE, failure |-> "",
          response |-> Response(404, [error |-> "No active nodes found for this EOA address",
                                      eoa |-> eoa_address, nodes |-> <<>>])]
    ELSE [stop |-> FALSE, failure |-> ""]

\* lines 151-182, for built what the block of lines 151-178 did
track_node_built(built) ==
    IF built.raised
    THEN [failure |-> built.exc, response |-> track_node_except]
    ELSE [failure |-> "", response |-> Response(200, built.body)]

\* lines 142-182, after fetch_rank_data returned f
track_node_data(eoa_address, peer_ids, f, now, host) ==
    IF f.raised THEN [failure |-> "fetch", response |-> track_node_except]
    ELSE IF ~Truthy(f.data)
    THEN [failure |-> "",
          response |-> Response(503, [error |-> "Unable to fetch node data from Gensyn API",
                                      eoa |-> eoa_address, nodes |-> <<>>])]
    ELSE track_node_built(build_payload(eoa_address, peer_ids, f.data, now, host))

(***************************************************************************)
(* The other views, and the two ways a request reaches a view: Flask's     *)
(* own dispatch (app), or the serverless wrapper handler around            *)
(* app.full_dispatch_request().  d = [raised, exc, response] is what the   *)
(* view did.                                                               *)
(***************************************************************************)
Returned(response) == [raised |-> FALSE, exc |-> "", response |-> response]

Raised(exc) == [raised |-> TRUE, exc |-> exc, response |-> Response(0, <<>>)]

\* lines 116-118; outcome is what render_template does
home(outcome) ==
    IF outcome = "ok" THEN Returned(Response(200, [html |-> "index.html"]))
    ELSE Raised(outcome)

\* lines 184-190; connected is what w3.is_connected() answers
health_check(self, connected) ==
    Returned(Response(200, [status |-> "healthy",
                            web3_connected |-> IF self.w3 THEN connected ELSE FALSE]))

\* lines 197-206
handler(d) ==
    IF d.raised THEN Response(500, [error |-> d.exc]) ELSE d.response

\* Flask answers an exception no handler took with its own 500 page
flask_dispatch(d) ==
    IF d.raised THEN Response(500, [html |-> "500 Internal Server Error"]) ELSE d.response

Dispatch(via, d) == IF via = "handler" THEN handler(d) ELSE flask_dispatch(d)

(***************************************************************************)
(* Inputs of the model.                                                    *)
(***************************************************************************)
\* address strings that are valid by EIP-55, and strings that are not
WellFormedAddresses ==
    {"0xfad7c5e93f28257429569b854151a1b8dcd404c2",
     CONTRACT_ADDRESS,
     "52908400098527886E0F7030069857D2E4169EE7"}

MalformedAddresses ==
    {"", "0x1234",
     "0xfaD7C5e93f28257429569B854151A1B8DCD404c2",
     "0xzad7c5e93f28257429569b854151a1b8dcd404c2",
     " 0xfad7c5e93f28257429569b854151a1b8dcd404c2"}

\* values of the eoa_address form field ("" also stands for a missing field)
FormInputs ==
    {"", "   ", "0x1234",
     " 0xfad7c5e93f28257429569b854151a1b8dcd404c2\n",
     CONTRACT_ADDRESS,
     "0xfaD7C5e93f28257429569B854151A1B8DCD404c2"}

PeerIds(k) == [i \in 1..k |-> "Qm" \o ToString(i)]

ChainOutcomes ==
    {ChainRaise("transport"), ChainRaise("decode"), ChainResult(<<>>)}
      \cup {ChainResult(<<PeerIds(k)>>) : k \in 0..MaxPeers}
      \cup {ChainResult(<<PeerIds(1), <<"QmOther">> >>)}

\* rank records a 200 body may carry: a full one, one with fields missing
\* and an unparseable lastSeen, one with no field at all
RankRecords ==
    <<JObj([peerId |-> JStr("Qm1"), rank |-> JNum(7), totalWins |-> JNum(3),
            totalRewards |-> JNum(12), lastSeen |-> JStr("2024-01-01T00:00:00Z")]),
      JObj([peerId |-> JStr("Qm2"), lastSeen |-> JStr("soonZ")]),
      EmptyObj>>

StatsValues == <<JObj([totalNodes |-> JNum(100), rankedNodes |-> JNum(40)]), EmptyObj>>

\* 200 bodies that are valid JSON of another shape than {ranks, stats}
OddBodies ==
    <<EmptyObj, JNull, JNum(0), JNum(5), JStr("ok"), JList(<<>>), JList(<<JNum(1)>>),
      JObj([ranks |-> JNull]), JObj([ranks |-> JStr("abc")]), JObj([ranks |-> JStr("")]),
      JObj([ranks |-> JList(<<JNum(1)>>)]), JObj([ranks |-> JObj([a |-> JNum(1)])]),
      JObj([ranks |-> JList(<<>>), stats |-> JNull]),
      JObj([ranks |-> JList(<<>>), stats |-> JList(<<>>)]),
      JObj([stats |-> StatsValues[1]])>>

RECURSIVE SeqsUpTo(_, _)
SeqsUpTo(S, n) ==
    IF n = 0 THEN {<<>>}
    ELSE SeqsUpTo(S, n - 1) \cup {Append(q, x) : q \in SeqsUpTo(S, n - 1), x \in S}

\* What the leaderboard does, as a description d:
\*   kind "timeout" / "connection" / "response"; status_code; parsed;
\*   odd # 0: the body is OddBodies[odd]; else the body is an object with
\*   ranks = the records RankRecords[i] for i in d.ranks, and
\*   stats = StatsValues[d.stats] when d.stats # 0.
PostCase(kind, code, parsed, odd, ranks, stats) ==
    [kind |-> kind, status_code |-> code, parsed |-> parsed,
     odd |-> odd, ranks |-> ranks, stats |-> stats]

RanksOf(q) == JList([i \in 1..Len(q) |-> RankRecords[q[i]]])

BodyOf(d) ==
    IF d.odd # 0 THEN OddBodies[d.odd]
    ELSE IF d.stats = 0 THEN JObj([ranks |-> RanksOf(d.ranks)])
    ELSE JObj([ranks |-> RanksOf(d.ranks), stats |-> StatsValues[d.stats]])

PostOutcomeOf(d) ==
    IF d.kind # "response" THEN PostRaises(d.kind)
    ELSE PostResponse(d.status_code, d.parsed, IF d.parsed THEN BodyOf(d) ELSE JNull)

PostCases ==
    {PostCase("timeout", 0, FALSE, 0, <<>>, 0),
     PostCase("connection", 0, FALSE, 0, <<>>, 0),
     PostCase("response", 500, FALSE, 0, <<>>, 0),
     PostCase("response", 404, TRUE, 1, <<>>, 0),
     PostCase("response", 429, TRUE, 0, <<1>>, 1),
     PostCase("response", 200, FALSE, 0, <<>>, 0)}
      \cup {PostCase("response", 200, TRUE, i, <<>>, 0) : i \in 1..Len(OddBodies)}
      \cup {PostCase("response", 200, TRUE, 0, q, s) :
              q \in SeqsUpTo(1..Len(RankRecords), MaxRanks), s \in 0..Len(StatsValues)}

\* UTC offsets (seconds) of the host's local timezone
HostOffsets == {0, IST_OFFSET, -18000}

T0 == WallSeconds([y |-> 2024, mo |-> 1, d |-> 1, h |-> 0, mi |-> 0, s |-> 0])

At(sec, us) == [sec |-> sec, us |-> us]

\* last-seen strings with, for the ones that parse, the instant and the
\* IST rendering they have when read as UTC (or at their explicit offset)
LastSeenCases ==
    {[str |-> "2024-01-01T00:00:00Z", parses |-> TRUE, zone |-> "Z",
      at |-> At(T0, 0), ist |-> "2024-01-01 05:30:00 IST"],
     [str |-> "2024-01-01T00:00:00.500Z", parses |-> TRUE, zone |-> "Z",
      at |-> At(T0, 500000), ist |-> "2024-01-01 05:30:00 IST"],
     [str |-> "2023-12-31T19:00:00-05:00", parses |-> TRUE, zone |-> "offset",
      at |-> At(T0, 0), ist |-> "2024-01-01 05:30:00 IST"],
     [str |-> "2024-02-29T18:45:10+00:00", parses |-> TRUE, zone |-> "offset",
      at |-> At(T0 + 59 * 86400 + 67510, 0), ist |-> "2024-03-01 00:15:10 IST"],
     [str |-> "2024-01-01T00:00:00", parses |-> TRUE, zone |-> "none",
      at |-> At(T0, 0), ist |-> "2024-01-01 05:30:00 IST"],
     [str |-> "2023-12-31 23:59:59.250000", parses |-> TRUE, zone |-> "none",
      at |-> At(T0 - 1, 250000), ist |-> "2024-01-01 05:29:59 IST"],
     [str |-> "not-a-date", parses |-> FALSE, zone |-> "none",
      at |-> At(0, 0), ist |-> ""],
     [str |-> "Zebra", parses |-> FALSE, zone |-> "none",
      at |-> At(0, 0), ist |-> ""],
     [str |-> "2024-13-01T00:00:00Z", parses |-> FALSE, zone |-> "Z",
      at |-> At(0, 0), ist |-> ""],
     [str |-> "2024-02-30T00:00:00", parses |-> FALSE, zone |-> "none",
      at |-> At(0, 0), ist |-> ""],
     [str |-> "", parses |-> FALSE, zone |-> "none",
      at |-> At(0, 0), ist |-> ""]}

\* seconds from T0 to the evaluation instants
ElapsedCases ==
    {-60, 0, 59, 300, 599, 600, 3540, 3599, 3600, 86399, 86400, 172800}

FormatNows == {At(T0 + e, us) : e \in ElapsedCases, us \in {0, 500000}}

TrackNows == {At(T0 + 300, 0), At(T0 + 86400, 500000)}

(***************************************************************************)
(* State.                                                                  *)
(*   tracker   the module-level GensynTracker (line 114)                   *)
(*   host      UTC offset of the host's local timezone                     *)
(*   op, pc    the operation in progress and its position                  *)
(*   via       how the request reached the view ("app" or "handler")       *)
(*   arg       the operation's input                                       *)
(*   now       the instant datetime.now() read                             *)
(*   chain     the get_peer_ids_from_eoa call of the operation             *)
(*   post      the fetch_rank_data call of the operation                   *)
(*   ret       the value a method called on its own returned               *)
(*   response  the HTTP response of the request                            *)
(*   failure   text of the exception raised while serving, "" if none      *)
(***************************************************************************)
VARIABLES tracker, host, op, pc, via, arg, now, chain, post, ret, response, failure

vars == <<tracker, host, op, pc, via, arg, now, chain, post, ret, response, failure>>

NoArg == <<>>

NoNow == At(0, 0)

NoChain ==
    [done |-> FALSE, outcome |-> ChainResult(<<>>), raised |-> FALSE,
     peer_ids |-> <<>>, called |-> <<>>]

NoPost ==
    [done |-> FALSE, outcome |-> PostRaises("none"), raised |-> FALSE,
     data |-> JNull, posted |-> 0]

NoRet == <<>>

NoResponse == Response(0, <<>>)

ChainCall(outcome, r) ==
    [done |-> TRUE, outcome |-> outcome, raised |-> r.raised,
     peer_ids |-> r.peer_ids, called |-> r.called]

PostCall(outcome, f) ==
    [done |-> TRUE, outcome |-> outcome, raised |-> f.raised,
     data |-> f.data, posted |-> f.posted]

Idle ==
    /\ op = "idle" /\ pc = "idle" /\ via = "none" /\ arg = NoArg /\ now = NoNow
    /\ chain = NoChain /\ post = NoPost /\ ret = NoRet
    /\ response = NoResponse /\ failure = ""

\* module import: tracker = GensynTracker()
Init ==
    /\ \E o \in InitOutcomes : tracker = TrackerInit(o)
    /\ host \in HostOffsets
    /\ Idle

\* POST /track arrives: track_node up to the chain read
TrackReceive(v, raw) ==
    /\ op = "idle"
    /\ \E s \in {track_node_start(raw)} :
           /\ op' = "track"
           /\ via' = v
           /\ arg' = [raw |-> raw, eoa_address |-> s.eoa_address]
           /\ pc' = IF s.stop THEN "done" ELSE "chain"
           /\ response' = IF s.stop THEN Dispatch(v, Returned(s.response)) ELSE NoResponse
    /\ UNCHANGED <<tracker, host, now, chain, post, ret, failure>>

\* the chain read returns: track_node up to the leaderboard call
TrackChainRead(outcome) ==
    /\ op = "track" /\ pc = "chain"
    /\ \E r \in {get_peer_ids_from_eoa(tracker, arg.eoa_address, outcome)} :
       \E s \in {track_node_peers(arg.eoa_address, r)} :
           /\ chain' = ChainCall(outcome, r)
           /\ pc' = IF s.stop THEN "done" ELSE "post"
           /\ failure' = s.failure
           /\ response' = IF s.stop THEN Dispatch(via, Returned(s.response)) ELSE NoResponse
    /\ UNCHANGED <<tracker, host, op, via, arg, now, post, ret>>

\* the leaderboard call returns: track_node to its end
TrackFetch(outcome, n) ==
    /\ op = "track" /\ pc = "post"
    /\ \E f \in {fetch_rank_data(chain.peer_ids, outcome)} :
       \E s \in {track_node_data(arg.eoa_address, chain.peer_ids, f, n, host)} :
           /\ post' = PostCall(outcome, f)
           /\ now' = n
           /\ pc' = "done"
           /\ failure' = s.failure
           /\ response' = Dispatch(via, Returned(s.response))
    /\ UNCHANGED <<tracker, host, op, via, arg, chain, ret>>

\* GET /
Home(v, outcome) ==
    /\ op = "idle"
    /\ \E d \in {home(outcome)} :
           /\ op' = "home" /\ pc' = "done" /\ via' = v
           /\ failure' = d.exc
           /\ response' = Dispatch(v, d)
    /\ UNCHANGED <<tracker, host, arg, now, chain, post, ret>>

\* GET /health
Health(v, connected) ==
    /\ op = "idle"
    /\ op' = "health" /\ pc' = "done" /\ via' = v
    /\ response' = Dispatch(v, health_check(tracker, connected))
    /\ UNCHANGED <<tracker, host, arg, now, chain, post, ret, failure>>

\* tracker.get_peer_ids_from_eoa(eoa) called on its own
CallGetPeerIds(eoa, outcome) ==
    /\ op = "idle"
    /\ \E r \in {get_peer_ids_from_eoa(tracker, eoa, outcome)} :
           /\ op' = "get_peer_ids_from_eoa" /\ pc' = "done"
           /\ arg' = [eoa_address |-> eoa]
           /\ chain' = ChainCall(outcome, r)
           /\ ret' = r.peer_ids
    /\ UNCHANGED <<tracker, host, via, now, post, response, failure>>

\* tracker.fetch_rank_data(peer_ids) called on its own
CallFetchRankData(peer_ids, outcome) ==
    /\ op = "idle"
    /\ \E f \in {fetch_rank_data(peer_ids, outcome)} :
           /\ op' = "fetch_rank_data" /\ pc' = "done"
           /\ arg' = [peer_ids |-> peer_ids]
           /\ post' = PostCall(outcome, f)
           /\ ret' = f.data
    /\ UNCHANGED <<tracker, host, via, now, chain, response, failure>>

\* tracker.format_last_seen(c.str) called on its own at instant n
CallFormatLastSeen(c, n) ==
    /\ op = "idle"
    /\ op' = "format_last_seen" /\ pc' = "done"
    /\ arg' = c
    /\ now' = n
    /\ ret' = format_last_seen(JStr(c.str), n, host)
    /\ UNCHANGED <<tracker, host, via, chain, post, response, failure>>

\* the operation is over; nothing of it is kept
Return ==
    /\ pc = "done"
    /\ op' = "idle" /\ pc' = "idle" /\ via' = "none" /\ arg' = NoArg /\ now' = NoNow
    /\ chain' = NoChain /\ post' = NoPost /\ ret' = NoRet
    /\ response' = NoResponse /\ failure' = ""
    /\ UNCHANGED <<tracker, host>>

Vias == {"app", "handler"}

RenderOutcomes == {"ok", "TemplateNotFound: index.html"}

Next ==
    \/ \E v \in Vias, raw \in FormInputs : TrackReceive(v, raw)
    \/ \E o \in ChainOutcomes : TrackChainRead(o)
    \/ \E d \in PostCases, n \in TrackNows : TrackFetch(PostOutcomeOf(d), n)
    \/ \E v \in Vias, o \in RenderOutcomes : Home(v, o)
    \/ \E v \in Vias, c \in BOOLEAN : Health(v, c)
    \/ \E a \in WellFormedAddresses \cup MalformedAddresses, o \in ChainOutcomes :
         CallGetPeerIds(a, o)
    \/ \E k \in 0..MaxPeers, d \in PostCases : CallFetchRankData(PeerIds(k), PostOutcomeOf(d))
    \/ \E c \in LastSeenCases, n \in FormatNows : CallFormatLastSeen(c, n)
    \/ Return

Spec == Init /\ [][Next]_vars

(***************************************************************************)
(* Properties.                                                             *)
(***************************************************************************)
TrackDone == op = "track" /\ pc = "done"

FormatDone == op = "format_last_seen" /\ pc = "done"

\* the form values whose trimmed text is a valid address
ValidForms == {" 0xfad7c5e93f28257429569b854151a1b8dcd404c2\n", CONTRACT_ADDRESS}

\* C1: the status of a /track response is decided by the first stage that
\* fails: 400 for an empty or invalid trimmed address, else 404 when the
\* chain lookup gave no peer IDs, else 503 when fetch_rank_data gave no
\* usable data; 200 only when all three stages succeeded.
C1_StatusByFirstFailingStage ==
    TrackDone =>
      /\ arg.raw \notin ValidForms => response.status = 400 /\ ~chain.done /\ ~post.done
      /\ arg.raw \in ValidForms /\ chain.peer_ids = <<>> =>
           response.status = 404 /\ ~post.done
      /\ arg.raw \in ValidForms /\ chain.peer_ids # <<>> /\ ~Truthy(post.data) =>
           response.status = 503
      /\ response.status = 200 =>
           /\ arg.raw \in ValidForms
           /\ chain.done /\ chain.peer_ids # <<>>
           /\ post.done /\ Truthy(post.data)

C1_Witness ==
    /\ TrackDone /\ response.status = 503
    /\ arg.raw \in ValidForms /\ chain.peer_ids # <<>> /\ post.posted = 1

\* C2: a /track request sends the leaderboard POST at most once, only after
\* the chain read returned a non-empty peer-ID list, and not at all when it
\* answers 400 or 404; fetch_rank_data on an empty list returns None and
\* sends nothing.
C2_PostOnceAfterChainRead ==
    /\ post.posted <= 1
    /\ op = "track" /\ post.done => chain.done /\ chain.peer_ids # <<>>
    /\ op = "track" /\ ~post.done => post.posted = 0
    /\ TrackDone /\ response.status \in {400, 404} => ~post.done /\ post.posted = 0
    /\ op = "fetch_rank_data" /\ arg.peer_ids = <<>> =>
         post.done /\ post.posted = 0 /\ ret.t = "null"

C2_Witness ==
    /\ op = "fetch_rank_data" /\ pc = "done" /\ arg.peer_ids = <<>>
    /\ post.outcome.kind = "response" /\ post.outcome.status_code = 200
    /\ post.outcome.parsed

\* the POST did not yield a parsed 200 body
FailedPost(o) == o.kind # "response" \/ o.status_code # 200 \/ ~o.parsed

\* C3: when the POST ends in a non-200 status, a timeout, a connection
\* failure or an unparseable body, fetch_rank_data returns None without
\* raising and /track answers 503.
C3_UpstreamFailureIsNoData ==
    post.done /\ post.posted = 1 /\ FailedPost(post.outcome) =>
      /\ ~post.raised
      /\ post.data.t = "null"
      /\ TrackDone => response.status = 503

C3_Witness ==
    /\ TrackDone /\ post.posted = 1
    /\ post.outcome.kind = "response" /\ post.outcome.status_code = 200
    /\ ~post.outcome.parsed
    /\ response.status = 503

\* C4: get_peer_ids_from_eoa never raises; it returns an empty list for a
\* malformed address, an uninitialised contract and a failed call; it calls
\* the contract only with an initialised contract and a valid address, with
\* that one address, and returns the first list of the result.
C4_ChainReadAbsorbsFailures ==
    chain.done =>
      /\ ~chain.raised
      /\ (arg.eoa_address \in MalformedAddresses \/ ~tracker.contract
            \/ chain.outcome.raised) => chain.peer_ids = <<>>
      /\ chain.called # <<>> =>
           /\ tracker.contract
           /\ arg.eoa_address \in WellFormedAddresses
           /\ Len(chain.called) = 1
      /\ chain.called # <<>> /\ ~chain.outcome.raised =>
           chain.peer_ids = IF chain.outcome.result = <<>> THEN <<>>
                            ELSE chain.outcome.result[1]

C4_Witness ==
    /\ op = "get_peer_ids_from_eoa" /\ pc = "done"
    /\ chain.called # <<>> /\ Len(chain.outcome.result) = 2
    /\ chain.peer_ids = PeerIds(1)

\* whole seconds from the instant (sec, us) to the evaluation instant now
WholeSecondsSince(sec, us) == now.sec - sec - (IF now.us < us THEN 1 ELSE 0)

\* minutes elapsed since arg.at, read in the zone the string names, or in
\* the host's zone when it names none
MinsElapsed ==
    WholeSecondsSince(IF arg.zone = "none" THEN arg.at.sec - host ELSE arg.at.sec,
                      arg.at.us) \div 60

AgoOf(m) ==
    IF m < 60 THEN ToString(m) \o "m ago"
    ELSE IF m < 1440 THEN ToString(m \div 60) \o "h ago"
    ELSE ToString(m \div 1440) \o "d ago"

\* the last-seen instant is exactly secs seconds before now
ExactlyAgo(secs) ==
    /\ arg.zone # "none" /\ arg.at.us = now.us
    /\ now.sec - arg.at.sec = secs

\* C5: for a parseable timestamp m minutes old, ago is "{m}m ago" below 60,
\* "{m/60}h ago" below 1440, "{m/1440}d ago" from 1440 on, and is_online is
\* m < 10; 9m59s is online, 10m0s is not, 59m is in minutes, 60m in hours,
\* 1440m in days.
C5_AgoAndOnline ==
    FormatDone /\ arg.parses =>
      /\ ret.ago = AgoOf(MinsElapsed)
      /\ ret.is_online = (MinsElapsed < 10)
      /\ ExactlyAgo(599) => ret.is_online /\ ret.ago = "9m ago"
      /\ ExactlyAgo(600) => ~ret.is_online /\ ret.ago = "10m ago"
      /\ ExactlyAgo(3540) => ret.ago = "59m ago"
      /\ ExactlyAgo(3600) => ret.ago = "1h ago"
      /\ ExactlyAgo(86400) => ret.ago = "1d ago"

C5_Witness ==
    /\ FormatDone /\ arg.parses /\ ExactlyAgo(600)
    /\ ~ret.is_online /\ ret.ago = "10m ago"

\* C6: a non-empty input that does not parse gives formatted = the input as
\* it was passed in, ago = "Unknown", is_online = false.
C6_RawInputOnParseFailure ==
    FormatDone /\ arg.str # "" /\ ~arg.parses =>
      ret = [formatted |-> arg.str, ago |-> "Unknown", is_online |-> FALSE]

\* sub occurs in s
Within(sub, s) ==
    \E i \in 1..(Len(s) - Len(sub) + 1) : SubSeq(s, i, i + Len(sub) - 1) = sub

C8_ReadAsUtcInstant ==
    FormatDone /\ arg.parses =>
      /\ ret.formatted = arg.ist
      /\ ret.ago = AgoOf(WholeSecondsSince(arg.at.sec, arg.at.us) \div 60)

\* the call of the example: "2024-01-01T00:00:00Z" at 2024-01-01T00:05:00Z
ExampleCall ==
    /\ FormatDone
    /\ arg.str = "2024-01-01T00:00:00Z"
    /\ now = At(1704067500, 0)

\* C9 as stated: the example returns "5m ago", online, and formatted
\* "2024-01-01 05:35:00 IST".
C9_ExampleAsStated ==
    ExampleCall =>
      ret = [formatted |-> "2024-01-01 05:35:00 IST", ago |-> "5m ago", is_online |-> TRUE]

\* C9 amended: the example returns "5m ago", online, and formatted
\* "2024-01-01 05:30:00 IST", the last-seen instant at UTC+5:30.
C9_Example ==
    ExampleCall =>
      ret = [formatted |-> "2024-01-01 05:30:00 IST", ago |-> "5m ago", is_online |-> TRUE]

C9_Witness == ExampleCall /\ ret.ago = "5m ago" /\ host # 0

\* the rank records of the body the leaderboard returned
ReturnedRecords ==
    IF "ranks" \in DOMAIN post.outcome.json.v /\ post.outcome.json.v.ranks.t = "list"
    THEN post.outcome.json.v.ranks.v ELSE <<>>

PeerIdOf(record) == IF "peerId" \in DOMAIN record.v THEN record.v.peerId ELSE JStr("")

\* C10: a success payload built from k queried peer IDs and n rank records
\* has n nodes in the records' order, the i-th with node_id = i and the
\* i-th record's peerId, and stats.your_nodes = k.
C10_NodesAndYourNodes ==
    TrackDone /\ response.status = 200 =>
      /\ Len(response.body.nodes) = Len(ReturnedRecords)
      /\ \A i \in 1..Len(ReturnedRecords) :
           /\ response.body.nodes[i].node_id = i
           /\ response.body.nodes[i].peer_id = PeerIdOf(ReturnedRecords[i])
      /\ response.body.stats.your_nodes = Len(chain.outcome.result[1])

C10_Witness ==
    /\ TrackDone /\ response.status = 200
    /\ Len(chain.outcome.result[1]) = 3
    /\ Len(response.body.nodes) = 2
    /\ response.body.stats.your_nodes = 3
    /\ response.body.nodes[2].node_id = 2

====
